---- MODULE Spec2Model ----
(***************************************************************************)
(* A model of src/src/components/CodeAnalyzer.jsx: the tolerant JSON       *)
(* extraction (extractJsonFromText, extractJsonFromFences), the way        *)
(* analyzeCode uses it, the component state analyzeCode writes, and the    *)
(* selection, loading, editing and saving of a file next to a run of       *)
(* analyzeCode.                                                            *)
(*                                                                         *)
(* A text is a sequence of one-character strings.  Indices are 1-based     *)
(* here and 0-based in the source.  A JavaScript value is a record         *)
(* [t |-> its type, v |-> its content as characters]; an object or array   *)
(* obtained from JSON.parse is held by its whitespace-free JSON text.      *)
(***************************************************************************)
EXTENDS Naturals, Sequences, FiniteSets, TLC

(* ------------------------------ bounds -------------------------------- *)

\* The longest input text, counted in pieces of Vocabulary.
MaxPieces == 4

\* The longest job result text in the runs of analyzeCode, in pieces.
MaxResultPieces == 2

\* The longest text extracted twice in the runs of SpecCalls, in pieces.
MaxCallPieces == 2

\* The longest text of the runs of SpecFence, in pieces of FencePieces.
MaxFencePieces == 5

\* The entries of a tree response.
MaxTreeEntries == 3

\* The longest list of files pushed: three batches.
MaxPushFiles == 11

\* while (pollCount < 120)
PollLimit == 120

(* ------------------------- JavaScript values -------------------------- *)

JSnull == [t |-> "null", v |-> <<>>]

JSundefined == [t |-> "undefined", v |-> <<>>]

JSstring(chars) == [t |-> "string", v |-> chars]

\* JavaScript's ToBoolean on the values of the model.
Truthy(x) ==
    CASE x.t = "null" -> FALSE
      [] x.t = "undefined" -> FALSE
      [] x.t = "string" -> x.v # <<>>
      [] x.t = "number" -> x.v # <<"0">>
      [] x.t = "boolean" -> x.v = <<"t", "r", "u", "e">>
      [] OTHER -> TRUE

\* JavaScript's typeof: null and arrays are 'object'.
TypeOf(x) ==
    CASE x.t = "null" -> "object"
      [] x.t = "array" -> "object"
      [] OTHER -> x.t

(* ------------------------------ JSON.parse ---------------------------- *)
(* JSON.parse over the characters of the model's alphabet: objects and     *)
(* arrays (the alphabet has no comma, so with at most one member),         *)
(* strings (the alphabet has no backslash), non-negative integers and the  *)
(* three literals, with JSON's whitespace between tokens.                  *)

WhiteSpace == {" ", "\n"}

Digits == {"0", "1"}

RECURSIVE SkipWs(_, _)
SkipWs(s, i) ==
    IF i <= Len(s) /\ s[i] \in WhiteSpace THEN SkipWs(s, i + 1) ELSE i

\* Whether word w stands in s at position i.
StartsAt(s, i, w) ==
    /\ i + Len(w) - 1 <= Len(s)
    /\ \A k \in 1..Len(w) : s[i + k - 1] = w[k]

ParseFail == [ok |-> FALSE, next |-> 0, val |-> JSnull]

\* The JSON text of a parsed value.
JsonText(x) ==
    IF x.t = "string" THEN <<"\"">> \o x.v \o <<"\"">> ELSE x.v

RECURSIVE StringEnd(_, _)
\* The index of the quote closing a string whose content starts at i; 0
\* when a line break comes first or the text ends.
StringEnd(s, i) ==
    IF i > Len(s) THEN 0
    ELSE IF s[i] = "\"" THEN i
    ELSE IF s[i] = "\n" THEN 0
    ELSE StringEnd(s, i + 1)

ParseString(s, i) ==
    LET e == StringEnd(s, i + 1)
    IN  IF e = 0 THEN ParseFail
        ELSE [ok |-> TRUE, next |-> e + 1, val |-> JSstring(SubSeq(s, i + 1, e - 1))]

RECURSIVE DigitsEnd(_, _)
DigitsEnd(s, i) ==
    IF i <= Len(s) /\ s[i] \in Digits THEN DigitsEnd(s, i + 1) ELSE i

ParseNumber(s, i) ==
    LET e == IF s[i] = "0" THEN i + 1 ELSE DigitsEnd(s, i)
    IN  [ok |-> TRUE, next |-> e, val |-> [t |-> "number", v |-> SubSeq(s, i, e - 1)]]

ParseLiteral(s, i) ==
    LET nul == <<"n", "u", "l", "l">>
        tru == <<"t", "r", "u", "e">>
        fal == <<"f", "a", "l", "s", "e">>
    IN  CASE StartsAt(s, i, nul) -> [ok |-> TRUE, next |-> i + 4, val |-> JSnull]
          [] StartsAt(s, i, tru) ->
                [ok |-> TRUE, next |-> i + 4, val |-> [t |-> "boolean", v |-> tru]]
          [] StartsAt(s, i, fal) ->
                [ok |-> TRUE, next |-> i + 5, val |-> [t |-> "boolean", v |-> fal]]
          [] OTHER -> ParseFail

RECURSIVE ParseValue(_, _)

\* An object whose key has been read and whose member value is mem.
ObjectClose(s, key, mem) ==
    LET e == IF mem.ok THEN SkipWs(s, mem.next) ELSE 0
    IN  IF e >= 1 /\ e <= Len(s) /\ s[e] = "}"
        THEN [ok |-> TRUE, next |-> e + 1,
              val |-> [t |-> "object",
                       v |-> <<"{">> \o JsonText(key.val) \o <<":">>
                             \o JsonText(mem.val) \o <<"}">>]]
        ELSE ParseFail

\* An object whose key is key: the colon and the member value follow.
ObjectMember(s, key) ==
    LET c == IF key.ok THEN SkipWs(s, key.next) ELSE 0
    IN  IF c >= 1 /\ c <= Len(s) /\ s[c] = ":"
        THEN ObjectClose(s, key, ParseValue(s, c + 1))
        ELSE ParseFail

\* An array whose only element is el.
ArrayClose(s, el) ==
    LET e == IF el.ok THEN SkipWs(s, el.next) ELSE 0
    IN  IF e >= 1 /\ e <= Len(s) /\ s[e] = "]"
        THEN [ok |-> TRUE, next |-> e + 1,
              val |-> [t |-> "array", v |-> <<"[">> \o JsonText(el.val) \o <<"]">>]]
        ELSE ParseFail

\* The JSON value that starts at the first non-blank position from i0.
ParseValue(s, i0) ==
    LET i == SkipWs(s, i0)
    IN  IF i > Len(s) THEN ParseFail
        ELSE IF s[i] = "{" THEN
            LET j == SkipWs(s, i + 1)
            IN  IF j > Len(s) THEN ParseFail
                ELSE IF s[j] = "}" THEN
                    [ok |-> TRUE, next |-> j + 1,
                     val |-> [t |-> "object", v |-> <<"{", "}">>]]
                ELSE IF s[j] # "\"" THEN ParseFail
                ELSE ObjectMember(s, ParseString(s, j))
        ELSE IF s[i] = "[" THEN
            LET j == SkipWs(s, i + 1)
            IN  IF j > Len(s) THEN ParseFail
                ELSE IF s[j] = "]" THEN
                    [ok |-> TRUE, next |-> j + 1,
                     val |-> [t |-> "array", v |-> <<"[", "]">>]]
                ELSE ArrayClose(s, ParseValue(s, j))
        ELSE IF s[i] = "\"" THEN ParseString(s, i)
        ELSE IF s[i] \in Digits THEN ParseNumber(s, i)
        ELSE ParseLiteral(s, i)

\* A parse that read r from the start of s: nothing but blanks may follow.
WholeText(s, r) ==
    IF r.ok /\ SkipWs(s, r.next) > Len(s)
    THEN [ok |-> TRUE, val |-> r.val]
    ELSE [ok |-> FALSE, val |-> JSnull]

\* JSON.parse(s): ok is FALSE where JSON.parse throws a SyntaxError.
JSONparse(s) == WholeText(s, ParseValue(s, 1))

(* -------------------------- extractJsonFromText ----------------------- *)
(* The outcome of a call: the value returned, whether an exception left    *)
(* the call, the candidates (first and last index) handed to JSON.parse,   *)
(* in order, and whether the scan of the text was entered.                 *)

Returned(val, tried, scanned) ==
    [value |-> val, threw |-> FALSE, tried |-> tried, scanned |-> scanned]

Thrown(tried) ==
    [value |-> JSundefined, threw |-> TRUE, tried |-> tried, scanned |-> TRUE]

\* The guard both functions open with: !s || typeof s !== 'string'.
NotAText(x) == ~Truthy(x) \/ TypeOf(x) # "string"

RECURSIVE StartsOf(_, _)
\* The indices of '{' in s from i on, in increasing order.
StartsOf(s, i) ==
    IF i > Len(s) THEN <<>>
    ELSE IF s[i] = "{" THEN <<i>> \o StartsOf(s, i + 1)
    ELSE StartsOf(s, i + 1)

RECURSIVE CloseOf_FirstBrace(_, _, _)
\* CloseOf without the depth: the first '}' after the start closes it.
CloseOf_FirstBrace(s, i, depth) ==
    IF i > Len(s) THEN 0
    ELSE IF s[i] = "}" THEN i
    ELSE CloseOf_FirstBrace(s, i + 1, depth)

RECURSIVE CloseOf(_, _, _)
\* The inner loop from index i with the given depth: the index of the '}'
\* at which depth reaches zero, 0 when the text ends first.
CloseOf(s, i, depth) ==
    IF i > Len(s) THEN 0
    ELSE IF s[i] = "{" THEN CloseOf(s, i + 1, depth + 1)
    ELSE IF s[i] = "}" THEN
        IF depth - 1 = 0 THEN i ELSE CloseOf(s, i + 1, depth - 1)
    ELSE CloseOf(s, i + 1, depth)

\* ReturnOrBreak with the catch returning null instead of breaking.
ReturnOrBreak_ReturnsNull(p) ==
    IF p.ok THEN [kind |-> "return", val |-> p.val]
    ELSE [kind |-> "return", val |-> JSnull]

\* ReturnOrBreak without the try: the SyntaxError leaves the function.
ReturnOrBreak_Rethrows(p) ==
    IF p.ok THEN [kind |-> "return", val |-> p.val]
    ELSE [kind |-> "throw", val |-> JSundefined]

\* try { return ... } catch (e) { break } around a parse that gave p.
ReturnOrBreak(p) ==
    IF p.ok THEN [kind |-> "return", val |-> p.val]
    ELSE [kind |-> "break", val |-> JSnull]

\* try { return JSON.parse(candidate) } catch (e) { break }
ParseCandidate(candidate) == ReturnOrBreak(JSONparse(candidate))

RECURSIVE ScanStarts(_, _, _, _)

\* What follows the parse attempt r on the k-th start.
AfterCandidate(s, starts, k, tried, r) ==
    CASE r.kind = "return" -> Returned(r.val, tried, TRUE)
      [] r.kind = "break" -> ScanStarts(s, starts, k + 1, tried)
      [] OTHER -> Thrown(tried)

\* for (const start of starts), from the k-th start on.
ScanStarts(s, starts, k, tried) ==
    IF k > Len(starts) THEN Returned(JSnull, tried, TRUE)
    ELSE
        LET start == starts[k]
            close == CloseOf(s, start, 0)
        IN  IF close = 0 THEN ScanStarts(s, starts, k + 1, tried)
            ELSE AfterCandidate(s, starts, k, Append(tried, <<start, close>>),
                                ParseCandidate(SubSeq(s, start, close)))

extractJsonFromText(x) ==
    IF NotAText(x) THEN Returned(JSnull, <<>>, FALSE)
    ELSE ScanStarts(x.v, StartsOf(x.v, 1), 1, <<>>)

(* ------------------------- extractJsonFromFences ---------------------- *)
(* fenceRegex = /```(?:json|python|py|txt)?\n([\s\S]*?)```/gi             *)

\* The backquote character, which a TLA+ string cannot hold.
Backquote == "bq"

Fence == <<Backquote, Backquote, Backquote>>

FenceLabels ==
    << <<"j", "s", "o", "n">>, <<"p", "y", "t", "h", "o", "n">>,
       <<"p", "y">>, <<"t", "x", "t">> >>

\* The i flag: letters compare by their lower-case form.
Lower(c) ==
    CASE c = "J" -> "j" [] c = "S" -> "s" [] c = "O" -> "o" [] c = "N" -> "n"
      [] c = "P" -> "p" [] c = "Y" -> "y" [] c = "T" -> "t" [] c = "H" -> "h"
      [] c = "X" -> "x" [] OTHER -> c

\* Whether label w, in any letter case, stands in s at i and a line break
\* follows it.
LabelAt(s, i, w) ==
    /\ i + Len(w) <= Len(s)
    /\ \A k \in 1..Len(w) : Lower(s[i + k - 1]) = w[k]
    /\ s[i + Len(w)] = "\n"

\* ```(?:json|python|py|txt)?\n at p: the index of the first character of
\* the group, 0 when the opening does not match at p.
OpenEnd(s, p) ==
    IF ~StartsAt(s, p, Fence) THEN 0
    ELSE
        LET fits == {k \in 1..Len(FenceLabels) : LabelAt(s, p + 3, FenceLabels[k])}
        IN  IF fits # {}
            THEN p + 3 + Len(FenceLabels[CHOOSE k \in fits : \A j \in fits : k <= j]) + 1
            ELSE IF p + 3 <= Len(s) /\ s[p + 3] = "\n" THEN p + 4
            ELSE 0

RECURSIVE CloseFrom(_, _)
\* ([\s\S]*?)``` from c: the index of the first ``` at or after c, 0 if none.
CloseFrom(s, c) ==
    IF c + 2 > Len(s) THEN 0
    ELSE IF StartsAt(s, c, Fence) THEN c
    ELSE CloseFrom(s, c + 1)

\* A match whose group starts at c, if a closing ``` follows at q.
MatchAt(c, q) ==
    IF c # 0 /\ q # 0
    THEN [found |-> TRUE, first |-> c, last |-> q - 1, next |-> q + 3]
    ELSE [found |-> FALSE, first |-> 0, last |-> 0, next |-> 0]

\* The match that starts at p, if there is one.
ExecAt(s, p, c) == MatchAt(c, IF c = 0 THEN 0 ELSE CloseFrom(s, c))

RECURSIVE FenceExec(_, _)
\* fenceRegex.exec(s) with lastIndex = from: the leftmost match at or
\* after from; first..last is the group, next the new lastIndex.
FenceExec(s, from) ==
    IF from > Len(s) THEN MatchAt(0, 0)
    ELSE IF ExecAt(s, from, OpenEnd(s, from)).found
    THEN ExecAt(s, from, OpenEnd(s, from))
    ELSE FenceExec(s, from + 1)

RECURSIVE TrimLeft(_)
TrimLeft(s) ==
    IF s # <<>> /\ Head(s) \in WhiteSpace THEN TrimLeft(Tail(s)) ELSE s

RECURSIVE TrimRight(_)
TrimRight(s) ==
    IF s # <<>> /\ s[Len(s)] \in WhiteSpace
    THEN TrimRight(SubSeq(s, 1, Len(s) - 1)) ELSE s

\* String.prototype.trim
Trim(s) == TrimRight(TrimLeft(s))

\* if (parsed) return parsed, where parsed is what extractJsonFromText
\* gave for the block.
ReturnIfParsed(parsed) ==
    IF parsed.threw THEN [kind |-> "throw", val |-> JSundefined]
    ELSE IF Truthy(parsed.value) THEN [kind |-> "return", val |-> parsed.value]
    ELSE [kind |-> "continue", val |-> JSnull]

\* try { return ... } catch (e) { ... } around a parse of block that gave p.
ReturnOrScan(block, p) ==
    IF p.ok THEN [kind |-> "return", val |-> p.val]
    ELSE ReturnIfParsed(extractJsonFromText(JSstring(block)))

\* try { return JSON.parse(block) }
\* catch (e) { const parsed = extractJsonFromText(block); if (parsed) return parsed }
ParseBlock(block) == ReturnOrScan(block, JSONparse(block))

RECURSIVE FenceLoop(_, _, _)

\* What follows the attempt r on the block of match m.
AfterBlock(s, m, tried, r) ==
    CASE r.kind = "return" -> Returned(r.val, tried, TRUE)
      [] r.kind = "continue" -> FenceLoop(s, m.next, tried)
      [] OTHER -> Thrown(tried)

\* The body of the loop for match m: const block = m[1].trim(), the try.
LoopBody(s, m, tried) ==
    IF ~m.found THEN Returned(JSnull, tried, TRUE)
    ELSE AfterBlock(s, m, Append(tried, <<m.first, m.last>>),
                    ParseBlock(Trim(SubSeq(s, m.first, m.last))))

\* while ((m = fenceRegex.exec(s)) !== null), with lastIndex = from; tried
\* holds the groups (first and last index) of the matches so far.
FenceLoop(s, from, tried) == LoopBody(s, FenceExec(s, from), tried)

extractJsonFromFences(x) ==
    IF NotAText(x) THEN Returned(JSnull, <<>>, FALSE)
    ELSE FenceLoop(x.v, 1, <<>>)

(* --------------- the extraction in analyzeCode (327-339) -------------- *)
(* fromFences first, then fromBraces; via names the strategy whose value   *)
(* is used, "none" where 'No JSON found in response' is thrown.            *)

\* if (fromBraces) ... else throw new Error('No JSON found in response')
UseBraces(fromBraces) ==
    IF fromBraces.threw THEN [value |-> JSundefined, threw |-> TRUE, via |-> "braces"]
    ELSE IF Truthy(fromBraces.value)
    THEN [value |-> fromBraces.value, threw |-> FALSE, via |-> "braces"]
    ELSE [value |-> JSnull, threw |-> FALSE, via |-> "none"]

\* if (fromFences) ... else { const fromBraces = extractJsonFromText(...) ... }
UseFences(x, fromFences) ==
    IF fromFences.threw THEN [value |-> JSundefined, threw |-> TRUE, via |-> "fences"]
    ELSE IF Truthy(fromFences.value)
    THEN [value |-> fromFences.value, threw |-> FALSE, via |-> "fences"]
    ELSE UseBraces(extractJsonFromText(x))

ExtractPipeline(x) == UseFences(x, extractJsonFromFences(x))

(* ------------------------------ inputs -------------------------------- *)

\* The pieces input texts are made of.  Backquotes come in threes.
Vocabulary ==
    { <<"{">>,
      <<"}">>,
      <<"{", "}">>,
      <<"{", "\"", "a", "\"", ":">>,
      <<"1">>,
      <<"\"">>,
      <<"\"", "}", "\"">>,
      Fence \o <<"\n">>,
      Fence \o <<"\n", "n", "u", "l", "l", "\n">> \o Fence,
      Fence \o <<"\n", "{", "\"", "a", "\"", ":", "1", "}", "\n">> \o Fence }

RECURSIVE TextsOf(_)
\* The texts of at most n pieces.
TextsOf(n) ==
    IF n = 0 THEN {<<>>}
    ELSE LET shorter == TextsOf(n - 1)
         IN  shorter \cup {t \o p : t \in shorter, p \in Vocabulary}

Texts == TextsOf(MaxPieces)

\* Values that are not strings.
NonStrings ==
    { JSnull, JSundefined,
      [t |-> "number", v |-> <<"0">>], [t |-> "number", v |-> <<"1">>],
      [t |-> "object", v |-> <<"{", "}">>], [t |-> "array", v |-> <<"[", "]">>] }

Inputs == {JSstring(t) : t \in Texts} \cup NonStrings

\* The pieces the result texts of the runs of analyzeCode are made of.
ResultVocabulary ==
    { <<"{">>,
      <<"{", "}">>,
      <<"1">>,
      Fence \o <<"\n", "n", "u", "l", "l", "\n">> \o Fence,
      Fence \o <<"\n", "{", "\"", "a", "\"", ":", "1", "}", "\n">> \o Fence }

RECURSIVE TextsFrom(_, _)
\* The texts of at most n pieces of the given set.
TextsFrom(pieces, n) ==
    IF n = 0 THEN {<<>>}
    ELSE LET shorter == TextsFrom(pieces, n - 1)
         IN  shorter \cup {t \o p : t \in shorter, p \in pieces}

\* What a job's result field may hold in the runs of analyzeCode.
JobResults ==
    {JSstring(t) : t \in TextsFrom(ResultVocabulary, MaxResultPieces)} \cup NonStrings

(* ------------------------------- state -------------------------------- *)

VARIABLES
    files,            \* useState([])
    selectedFile,     \* useState(null)
    selectedFilePath, \* useState('')
    fileContent,      \* useState('')
    analysisResult,   \* useState(null)
    error,            \* useState('')
    isAnalyzing,      \* useState(false)
    loading,          \* the files whose content request (237) is in flight
    pc,               \* where the run of analyzeCode stands
    pollCount,        \* analyzeCode's pollCount
    jobData,          \* analyzeCode's jobData
    via,              \* the setAnalysisResult call of analyzeCode that ran last
    submitted,        \* the code and file name the run posted (295)
    requestFailed,    \* whether a status request of the run has failed
    input,            \* the value the extraction is applied to
    call,             \* the extraction function called on input, "none" before
    ret,              \* what that call returned
    lastIndex,        \* fenceRegex.lastIndex when the latest call returned
    other,            \* the value extracted between two calls on input
    again,            \* what the second call on input returned
    relabelled,       \* input with the label json on its opening fence
    isLoadingFiles,   \* useState(false)
    fetchPc,          \* where the run of fetchRepositoryFiles stands
    listFailed,       \* the request of that run that failed, "" for none
    tree,             \* the entries of the tree response (177)
    isPushing,        \* pushFilesToRepo: setIsPushing
    pushPc,           \* where the run of pushFilesToRepo stands
    pushFiles,        \* the number of files in its list, files.length
    batchNum,         \* its batchNum
    pushState,        \* the state of the push of each file of the list
    requests,         \* for each file of the list, the batches that sent a request for it
    stateError        \* state.error of the project store (SET_ERROR)

component ==
    <<files, selectedFile, selectedFilePath, fileContent, analysisResult, error,
      isAnalyzing>>

\* What a selection of a file writes besides analysisResult and error.
selection == <<files, selectedFile, selectedFilePath, fileContent, loading>>

run == <<pc, pollCount, jobData, via, submitted, requestFailed>>

harness == <<input, call, ret, lastIndex, other, again, relabelled>>

\* What fetchRepositoryFiles writes besides files and error.
listing == <<isLoadingFiles, fetchPc, listFailed, tree>>

\* What pushFilesToRepo writes.
pushing == <<isPushing, pushPc, pushFiles, batchNum, pushState, requests, stateError>>

background == <<listing, pushing>>

vars == <<files, selectedFile, selectedFilePath, fileContent, analysisResult, error,
          isAnalyzing, loading, pc, pollCount, jobData, via, submitted,
          requestFailed, input, call, ret, lastIndex, other, again, relabelled,
          isLoadingFiles, fetchPc, listFailed, tree, isPushing, pushPc, pushFiles,
          batchNum, pushState, requests, stateError>>

\* selectedFile before any selection (null in the source).
NoFile == [name |-> "", path |-> "", type |-> "", content |-> ""]

\* Two files of the repository as fetchAllFiles lists them, without content.
AFile == [name |-> "a.js", path |-> "src/a.js", type |-> "javascript", content |-> ""]

BFile == [name |-> "b.py", path |-> "src/b.py", type |-> "python", content |-> ""]

\* The content the repository holds for a file.
ContentOf(file) == IF file.path = AFile.path THEN "code" ELSE "code b"

\* const updatedFile = { ...file, content }
WithContent(file, content) == [file EXCEPT !.content = content]

NoJobData == [status |-> "", result |-> JSundefined, error |-> ""]

NoRet == Returned(JSundefined, <<>>, FALSE)

\* No code posted yet.
NoSubmit == [code |-> "", fileName |-> "", fileType |-> ""]

\* No value extracted between the two calls.
NoOther == [t |-> "none", v |-> <<>>]

(* ----------------------------- analyzeCode ---------------------------- *)

\* The object lines 345-355 build around the raw result.
FallbackResult(message) ==
    [t |-> "object", v |-> <<>>,
     errors |-> <<>>,
     warnings |-> <<>>,
     suggestions |-> <<[line |-> 0, code |-> "Analysis Result",
                        message |-> message, severity |-> "info"]>>,
     summary |-> [errorCount |-> 0, warningCount |-> 0, suggestionCount |-> 1]]

\* FoundOrFallback with the failure reported as an error message in place
\* of the raw text.
FoundOrFallback_DropsText(analysisContent, found) ==
    IF ~found.threw /\ found.via # "none"
    THEN [result |-> found.value, via |-> found.via]
    ELSE [result |-> FallbackResult(JSstring(<<"N", "o", " ", "J", "S", "O", "N">>)),
          via |-> "fallback"]

\* The catch of lines 343-356 around the extraction, which gave found.
FoundOrFallback(analysisContent, found) ==
    IF ~found.threw /\ found.via # "none"
    THEN [result |-> found.value, via |-> found.via]
    ELSE [result |-> FallbackResult(analysisContent), via |-> "fallback"]

\* Lines 321-356: the value setAnalysisResult is called with, and the call.
AnalysisOf(analysisContent) ==
    IF TypeOf(analysisContent) = "object"
    THEN [result |-> analysisContent, via |-> "object"]
    ELSE IF TypeOf(analysisContent) = "string"
    THEN FoundOrFallback(analysisContent, ExtractPipeline(analysisContent))
    ELSE [result |-> FallbackResult(analysisContent), via |-> "fallback"]

\* setAnalysisResult(a.result), at the call a.via.
SetAnalysisResult(a) ==
    /\ analysisResult' = a.result
    /\ via' = a.via

\* FinishAnalysis with setIsAnalyzing(false) as the last statement of the try
\* instead of the finally: a throw skips it.
FinishAnalysis_NoFinally(data) ==
    /\ IF data.status = ""
       THEN /\ error' = "Analysis job timed out"
            /\ UNCHANGED <<analysisResult, via, isAnalyzing>>
       ELSE IF data.status = "failed"
       THEN /\ error' = (IF data.error # "" THEN data.error ELSE "Analysis failed")
            /\ UNCHANGED <<analysisResult, via, isAnalyzing>>
       ELSE /\ SetAnalysisResult(AnalysisOf(data.result))
            /\ isAnalyzing' = FALSE
            /\ UNCHANGED error
    /\ pc' = "done"

\* FinishAnalysis without line 319: a failed job is treated as a finished one.
FinishAnalysis_FailedUnchecked(data) ==
    /\ IF data.status = ""
       THEN /\ error' = "Analysis job timed out"
            /\ UNCHANGED <<analysisResult, via>>
       ELSE /\ SetAnalysisResult(AnalysisOf(data.result))
            /\ UNCHANGED error
    /\ isAnalyzing' = FALSE
    /\ pc' = "done"

\* Lines 318-366, reached when the poll loop is left with jobData = data.
FinishAnalysis(data) ==
    /\ IF data.status = ""
       THEN /\ error' = "Analysis job timed out"
            /\ UNCHANGED <<analysisResult, via>>
       ELSE IF data.status = "failed"
       THEN /\ error' = (IF data.error # "" THEN data.error ELSE "Analysis failed")
            /\ UNCHANGED <<analysisResult, via>>
       ELSE /\ SetAnalysisResult(AnalysisOf(data.result))
            /\ UNCHANGED error
    /\ isAnalyzing' = FALSE
    /\ pc' = "done"

\* The button (569-570) runs analyzeCode: lines 273-281, up to the submit.
AnalyzeCode ==
    /\ ~isAnalyzing
    /\ fileContent # ""
    /\ pc \in {"idle", "done"}
    /\ IF selectedFile = NoFile \/ fileContent = ""
       THEN /\ error' = "Please select a file to analyze"
            /\ UNCHANGED <<analysisResult, isAnalyzing, run>>
       ELSE /\ isAnalyzing' = TRUE
            /\ error' = ""
            /\ analysisResult' = JSnull
            /\ pc' = "submitting"
            /\ pollCount' = 0
            /\ jobData' = NoJobData
            /\ via' = ""
            /\ submitted' = [code |-> fileContent, fileName |-> selectedFile.name,
                             fileType |-> selectedFile.type]
            /\ requestFailed' = FALSE
    /\ UNCHANGED <<selection, harness, background>>

\* The answer to the submit (293-300): a job id, none, or a failed request.
SubmitResponse ==
    /\ pc = "submitting"
    /\ \E answer \in {"job", "nojob", "neterror"} :
         IF answer = "job"
         THEN /\ pc' = "waiting"
              /\ UNCHANGED <<error, isAnalyzing>>
         ELSE /\ error' = (IF answer = "nojob"
                           THEN "No job id returned from analysis server"
                           ELSE "Network Error")
              /\ isAnalyzing' = FALSE
              /\ pc' = "done"
    /\ UNCHANGED <<selection, analysisResult, pollCount, jobData, via, submitted,
                   requestFailed, harness, background>>

\* The one-second timer of a poll runs out (306-308).
PollTimer ==
    /\ pc = "waiting"
    /\ pollCount < PollLimit
    /\ pollCount' = pollCount + 1
    /\ pc' = "polling"
    /\ UNCHANGED <<component, loading, jobData, via, submitted, requestFailed, harness, background>>

\* StatusFails without the try of lines 309-315: the failure of the request
\* reaches the catch of line 357.
StatusFails_Aborts ==
    /\ pc = "polling"
    /\ requestFailed' = TRUE
    /\ error' = "Network Error"
    /\ isAnalyzing' = FALSE
    /\ pc' = "done"
    /\ UNCHANGED <<selection, analysisResult, via, pollCount, jobData, submitted, harness, background>>

\* The status request of a poll fails (313-315); the loop goes on or ends.
StatusFails ==
    /\ pc = "polling"
    /\ requestFailed' = TRUE
    /\ IF pollCount < PollLimit
       THEN /\ pc' = "waiting"
            /\ UNCHANGED <<component, loading, via>>
       ELSE /\ FinishAnalysis(jobData)
            /\ UNCHANGED selection
    /\ UNCHANGED <<pollCount, jobData, submitted, harness, background>>

\* A status response with the given data arrives (310-312), and what
\* follows it up to the next await or the end of analyzeCode.
StatusArrives(data) ==
    /\ pc = "polling"
    /\ jobData' = data
    /\ IF data.status \in {"done", "failed"} \/ ~(pollCount < PollLimit)
       THEN /\ FinishAnalysis(data)
            /\ UNCHANGED selection
       ELSE /\ pc' = "waiting"
            /\ UNCHANGED <<component, loading, via>>
    /\ UNCHANGED <<pollCount, submitted, requestFailed>>

StatusResponse ==
    /\ UNCHANGED <<harness, background>>
    /\ \E status \in {"running", "done", "failed"} :
      \E result \in (IF status = "done" THEN JobResults ELSE {JSundefined}) :
        \E message \in (IF status = "failed" THEN {"", "boom"} ELSE {""}) :
          StatusArrives([status |-> status, result |-> result, error |-> message])

\* No run of fetchRepositoryFiles or pushFilesToRepo has started.
Quiet ==
    /\ isLoadingFiles = FALSE
    /\ fetchPc = "idle"
    /\ listFailed = ""
    /\ tree = <<>>
    /\ isPushing = FALSE
    /\ pushPc = "idle"
    /\ pushFiles = 0
    /\ batchNum = 0
    /\ pushState = <<>>
    /\ requests = <<>>
    /\ stateError = ""

\* No run of analyzeCode has started.
NoRun ==
    /\ pc = "idle"
    /\ pollCount = 0
    /\ jobData = NoJobData
    /\ via = ""
    /\ submitted = NoSubmit
    /\ requestFailed = FALSE

\* No extraction is applied on its own.
NoCalls ==
    /\ call = "none"
    /\ ret = NoRet
    /\ lastIndex = 1
    /\ other = NoOther
    /\ again = NoRet
    /\ relabelled = JSundefined

\* The component with the file AFile selected and its content loaded.
AFileLoaded ==
    /\ files = <<WithContent(AFile, ContentOf(AFile))>>
    /\ selectedFile = WithContent(AFile, ContentOf(AFile))
    /\ selectedFilePath = AFile.path
    /\ fileContent = ContentOf(AFile)
    /\ loading = {}

\* The component before a selection, or with AFile selected and loaded.
Init ==
    /\ \/ /\ files = <<AFile>>
          /\ selectedFile = NoFile
          /\ selectedFilePath = ""
          /\ fileContent = ""
          /\ loading = {}
       \/ AFileLoaded
    /\ analysisResult = JSnull
    /\ error = ""
    /\ isAnalyzing = FALSE
    /\ NoRun
    /\ Quiet
    /\ input = JSundefined
    /\ NoCalls

Next ==
    \/ AnalyzeCode
    \/ SubmitResponse
    \/ PollTimer
    \/ StatusFails
    \/ StatusResponse

Spec == Init /\ [][Next]_vars

\* A request that was sent gets its response or fails, and a timer that was
\* set runs out.
Responsive ==
    /\ WF_vars(SubmitResponse)
    /\ WF_vars(PollTimer)
    /\ WF_vars(StatusFails \/ StatusResponse)

SpecLive == Init /\ [][Next]_vars /\ Responsive

(* ------------------- selecting, loading and editing ------------------ *)
(* handleFileSelect and loadFileContent (a content request that is        *)
(* answered or fails later), the editor and the save, next to a run of     *)
(* analyzeCode whose job is done at its first poll.                        *)

\* The text typed into the editor while a file is shown.
Edited(file) == IF file.path = AFile.path THEN "edited a" ELSE "edited b"

\* prevFiles.map(f => f.path === file.path ? updatedFile : f)
Replaced(prevFiles, updatedFile) ==
    [k \in 1..Len(prevFiles) |->
        IF prevFiles[k].path = updatedFile.path THEN updatedFile ELSE prevFiles[k]]

\* A click on a file of the list (470): handleFileSelect(file), and
\* loadFileContent(file) up to its return or its content request.
HandleFileSelect ==
    /\ \E k \in 1..Len(files) :
         LET file == files[k]
         IN  /\ selectedFilePath' = file.path
             /\ selectedFile' = file
             /\ analysisResult' = JSnull
             /\ IF file.content # ""
                THEN /\ fileContent' = file.content
                     /\ UNCHANGED <<error, loading>>
                ELSE /\ error' = ""
                     /\ loading' = loading \cup {file}
                     /\ UNCHANGED fileContent
    /\ UNCHANGED <<files, isAnalyzing, run, harness, background>>

\* The content request for a file is answered (237-265).
LoadResponse ==
    /\ \E file \in loading :
         LET content == ContentOf(file)
             updatedFile == WithContent(file, content)
         IN  /\ selectedFile' = updatedFile
             /\ fileContent' = content
             /\ files' = Replaced(files, updatedFile)
             /\ loading' = loading \ {file}
    /\ UNCHANGED <<selectedFilePath, analysisResult, error, isAnalyzing, run, harness, background>>

\* The content request for a file fails (266-269).
LoadFails ==
    /\ \E file \in loading :
         /\ error' = "Failed to load file content: Network Error"
         /\ loading' = loading \ {file}
    /\ UNCHANGED <<files, selectedFile, selectedFilePath, fileContent, analysisResult,
                   isAnalyzing, run, harness, background>>

\* The user edits the text shown for the selected file (540, 552, 386-388).
HandleContentChange ==
    /\ selectedFile # NoFile
    /\ fileContent' = Edited(selectedFile)
    /\ UNCHANGED <<files, selectedFile, selectedFilePath, analysisResult, error,
                   isAnalyzing, loading, run, harness, background>>

\* The save button (533, 391-400).
HandleSave ==
    /\ selectedFile # NoFile
    /\ selectedFile' = WithContent(selectedFile, fileContent)
    /\ files' = Replaced(files, WithContent(selectedFile, fileContent))
    /\ UNCHANGED <<selectedFilePath, fileContent, analysisResult, error, isAnalyzing,
                   loading, run, harness, background>>

\* The result of the job in the runs of SpecFiles: a structured object.
AnObject == [t |-> "object", v |-> <<"{", "}">>]

\* The first status response says 'done' and carries an object.
StatusDone ==
    /\ UNCHANGED <<harness, background>>
    /\ StatusArrives([status |-> "done", result |-> AnObject, error |-> ""])

\* The list as fetchRepositoryFiles set it, nothing selected.
InitFiles ==
    /\ files = <<AFile, BFile>>
    /\ selectedFile = NoFile
    /\ selectedFilePath = ""
    /\ fileContent = ""
    /\ loading = {}
    /\ analysisResult = JSnull
    /\ error = ""
    /\ isAnalyzing = FALSE
    /\ NoRun
    /\ Quiet
    /\ input = JSundefined
    /\ NoCalls

NextFiles ==
    \/ HandleFileSelect
    \/ LoadResponse
    \/ LoadFails
    \/ HandleContentChange
    \/ HandleSave
    \/ AnalyzeCode
    \/ SubmitResponse
    \/ PollTimer
    \/ StatusDone

SpecFiles == InitFiles /\ [][NextFiles]_vars

(* ---------------- the extraction applied to every input --------------- *)
(* analyzeCode is waiting for the status response of its first poll; the   *)
(* response will say 'done' with input as its result.                      *)

InitExtract ==
    /\ input \in Inputs
    /\ NoCalls
    /\ AFileLoaded
    /\ analysisResult = JSnull
    /\ error = ""
    /\ isAnalyzing = TRUE
    /\ pc = "polling"
    /\ pollCount = 1
    /\ jobData = NoJobData
    /\ via = ""
    /\ submitted = [code |-> ContentOf(AFile), fileName |-> AFile.name,
                    fileType |-> AFile.type]
    /\ requestFailed = FALSE
    /\ Quiet

CallExtractJsonFromText ==
    /\ call = "none"
    /\ call' = "text"
    /\ ret' = extractJsonFromText(input)
    /\ UNCHANGED <<input, lastIndex, other, again, relabelled, component, loading, run,
                   background>>

\* CallExtractJsonFromFences with the helper storing what it found itself.
CallExtractJsonFromFences_Stores ==
    /\ call = "none"
    /\ call' = "fences"
    /\ ret' = extractJsonFromFences(input)
    /\ analysisResult' = ret'.value
    /\ UNCHANGED <<input, lastIndex, other, again, relabelled, selection, error,
                   isAnalyzing, run, background>>

CallExtractJsonFromFences ==
    /\ call = "none"
    /\ call' = "fences"
    /\ ret' = extractJsonFromFences(input)
    /\ UNCHANGED <<input, lastIndex, other, again, relabelled, component, loading, run,
                   background>>

ResultArrives ==
    /\ call = "none"
    /\ call' = "analyze"
    /\ StatusArrives([status |-> "done", result |-> input, error |-> ""])
    /\ UNCHANGED <<input, ret, lastIndex, other, again, relabelled, background>>

NextExtract ==
    \/ CallExtractJsonFromText
    \/ CallExtractJsonFromFences
    \/ ResultArrives

SpecExtract == InitExtract /\ [][NextExtract]_vars

(* -------------------- calls that follow one another ------------------ *)
(* fenceRegex carries the g flag, so exec starts at the object's lastIndex *)
(* and leaves it past the match (at 0 when nothing matches).  The regex    *)
(* object of a call is out of reach once the call returns; lastIndex keeps *)
(* where it stood, which is where a regex object shared by the calls would *)
(* start the next one.                                                     *)

\* NewFenceRegex with one regex object made once and used by every call.
NewFenceRegex_Shared(left) == left

\* const fenceRegex = /.../gi, inside the function: every call makes a
\* regex object of its own, whose lastIndex is 0 (index 1 here), wherever
\* the object of the call before, left, stood.
NewFenceRegex(left) == 1

\* extractJsonFromFences(x) after a call that left its regex object at left.
FencesCall(x, left) ==
    IF NotAText(x) THEN Returned(JSnull, <<>>, FALSE)
    ELSE FenceLoop(x.v, NewFenceRegex(left), <<>>)

\* fenceRegex.lastIndex when the call on x that gave r returns: past the
\* closing fence of the last match when the loop body returned, 0 (index 1)
\* when exec found no further match; no regex object is made when the guard
\* of line 118 returns.
LastIndexAfter(x, left, r) ==
    IF ~r.scanned THEN left
    ELSE IF r.tried = <<>> THEN 1
    ELSE LET b == r.tried[Len(r.tried)]
         IN  IF ParseBlock(Trim(SubSeq(x.v, b[1], b[2]))).kind = "continue"
             THEN 1
             ELSE b[2] + 4

\* The call of the function named fn on x.
Extraction(fn, x, left) ==
    IF fn = "text" THEN extractJsonFromText(x) ELSE FencesCall(x, left)

\* Where the call leaves the regex object: extractJsonFromText has none.
RegexAfter(fn, x, left, r) ==
    IF fn = "text" THEN left ELSE LastIndexAfter(x, left, r)

\* The values extracted twice, and those extracted in between.
CallInputs == {JSstring(t) : t \in TextsOf(MaxCallPieces)} \cup NonStrings

Others == {JSstring(t) : t \in TextsOf(1)} \cup NonStrings

InitCalls ==
    /\ input \in CallInputs
    /\ NoCalls
    /\ AFileLoaded
    /\ analysisResult = JSnull
    /\ error = ""
    /\ isAnalyzing = FALSE
    /\ NoRun
    /\ Quiet

\* The first call on input, of either function.
FirstCall ==
    /\ call = "none"
    /\ \E fn \in {"text", "fences"} :
         /\ call' = fn
         /\ ret' = Extraction(fn, input, lastIndex)
         /\ lastIndex' = RegexAfter(fn, input, lastIndex, ret')
    /\ UNCHANGED <<input, other, again, relabelled, component, loading, run,
                   background>>

\* A call of either function on another value, after the first call on input.
OtherCall ==
    /\ call # "none"
    /\ other = NoOther
    /\ again = NoRet
    /\ \E fn \in {"text", "fences"} : \E x \in Others :
         /\ other' = x
         /\ lastIndex' = RegexAfter(fn, x, lastIndex, Extraction(fn, x, lastIndex))
    /\ UNCHANGED <<input, call, ret, again, relabelled, component, loading, run,
                   background>>

\* The second call on input, of the function called first.
SecondCall ==
    /\ call # "none"
    /\ again = NoRet
    /\ again' = Extraction(call, input, lastIndex)
    /\ lastIndex' = RegexAfter(call, input, lastIndex, again')
    /\ UNCHANGED <<input, call, ret, other, relabelled, component, loading, run,
                   background>>

NextCalls ==
    \/ FirstCall
    \/ OtherCall
    \/ SecondCall

SpecCalls == InitCalls /\ [][NextCalls]_vars

(* ------------------ texts of fences, labels and prose ----------------- *)
(* extractJsonFromFences applied to texts made of fences with and without  *)
(* a label, block content and prose.  A shape is a sequence of piece       *)
(* names; the text of a shape puts one label on its labelled fences.       *)

\* The labels put on the opening fence: none, and the four of the regex in
\* some letter cases.
OpenLabels ==
    { <<>>, <<"j", "s", "o", "n">>, <<"J", "s", "o", "n">>,
      <<"p", "y", "t", "h", "o", "n">>, <<"P", "Y">>, <<"t", "x", "t">> }

\* A block of JavaScript as a chat answer fences it: label js, each fence
\* on a line of its own.
JsBlock == Fence \o <<"j", "s", "\n", "x", "\n">> \o Fence \o <<"\n">>

\* The text of a piece, a line or more: a fence carrying the label, a fence
\* without one, an object, a letter of prose, a block labelled js.
PieceText(piece, label) ==
    CASE piece = "open" -> Fence \o label \o <<"\n">>
      [] piece = "fence" -> Fence \o <<"\n">>
      [] piece = "object" -> <<"{", "}", "\n">>
      [] piece = "prose" -> <<"x", "\n">>
      [] OTHER -> JsBlock

FencePieces == {"open", "fence", "object", "prose", "jsblock"}

RECURSIVE TextOfShape(_, _)
TextOfShape(shape, label) ==
    IF shape = <<>> THEN <<>>
    ELSE PieceText(Head(shape), label) \o TextOfShape(Tail(shape), label)

Shapes == TextsFrom({<<piece>> : piece \in FencePieces}, MaxFencePieces)

\* As InitExtract, with input the text of a shape under a label and
\* relabelled the text of the same shape under the label json.
InitFence ==
    /\ \E shape \in Shapes : \E label \in OpenLabels :
         /\ input = JSstring(TextOfShape(shape, label))
         /\ relabelled = JSstring(TextOfShape(shape, <<"j", "s", "o", "n">>))
    /\ call = "none"
    /\ ret = NoRet
    /\ lastIndex = 1
    /\ other = NoOther
    /\ again = NoRet
    /\ AFileLoaded
    /\ analysisResult = JSnull
    /\ error = ""
    /\ isAnalyzing = TRUE
    /\ pc = "polling"
    /\ pollCount = 1
    /\ jobData = NoJobData
    /\ via = ""
    /\ submitted = [code |-> ContentOf(AFile), fileName |-> AFile.name,
                    fileType |-> AFile.type]
    /\ requestFailed = FALSE
    /\ Quiet

NextFence ==
    \/ CallExtractJsonFromFences
    \/ ResultArrives

SpecFence == InitFence /\ [][NextFence]_vars

(* ----------------------- fetchRepositoryFiles ------------------------- *)

\* Entries of a tree response: two sources, an image, a blob above the size
\* limit and a directory.
TreeEntries == {
    [path |-> "src/a.js",  type |-> "blob", size |-> 120],
    [path |-> "src/b.py",  type |-> "blob", size |-> 80],
    [path |-> "img.png",   type |-> "blob", size |-> 500],
    [path |-> "big.txt",   type |-> "blob", size |-> 1000001],
    [path |-> "src",       type |-> "tree", size |-> 0] }

RECURSIVE TreesOf(_)
TreesOf(n) ==
    IF n = 0 THEN {<<>>}
    ELSE TreesOf(n - 1) \cup
         { Append(t, e) : t \in {u \in TreesOf(n - 1) : Len(u) = n - 1}, e \in TreeEntries }

\* treeResp.data?.tree || []
Trees == TreesOf(MaxTreeEntries)

\* entry.path.split('/').pop()
LastSegment(path) ==
    CASE path = "src/a.js" -> "a.js"
      [] path = "src/b.py" -> "b.py"
      [] OTHER -> path

\* filename.split('.').pop()?.toLowerCase()
Extension(filename) ==
    CASE filename = "a.js" -> "js"
      [] filename = "b.py" -> "py"
      [] filename = "img.png" -> "png"
      [] filename = "big.txt" -> "txt"
      [] OTHER -> filename

getFileType(filename) ==
    LET ext == Extension(filename)
    IN  CASE ext \in {"js", "jsx"} -> "javascript"
          [] ext = "py" -> "python"
          [] ext = "txt" -> "text"
          [] OTHER -> "text"

isBinaryFile(filename) ==
    Extension(filename) \in {"jpg", "jpeg", "png", "gif", "bmp", "ico", "svg", "pdf", "zip"}

\* The entry of allFiles for a tree entry (186-193).
ListedFile(entry) ==
    [name |-> LastSegment(entry.path), path |-> entry.path,
     type |-> getFileType(LastSegment(entry.path)), content |-> ""]

\* for (const entry of tree): the blobs that are neither binary nor too big.
RECURSIVE AllFiles(_)
AllFiles(t) ==
    IF t = <<>> THEN <<>>
    ELSE LET entry == Head(t)
         IN  IF /\ entry.type = "blob"
                /\ ~isBinaryFile(LastSegment(entry.path))
                /\ ~(entry.size > 1000000)
             THEN <<ListedFile(entry)>> \o AllFiles(Tail(t))
             ELSE AllFiles(Tail(t))

\* setFiles(allFiles), and finally setIsLoadingFiles(false).
FilesListed(allFiles) ==
    /\ files' = allFiles
    /\ isLoadingFiles' = FALSE
    /\ fetchPc' = "done"

\* fetchRepositoryFiles up to the request for the branch; a project is
\* current, and the refresh button is disabled while files load (444).
FetchRepositoryFiles ==
    /\ fetchPc \in {"idle", "done"}
    /\ isLoadingFiles' = TRUE
    /\ error' = ""
    /\ fetchPc' = "branch"
    /\ listFailed' = ""
    /\ tree' = <<>>
    /\ UNCHANGED <<files, selectedFile, selectedFilePath, fileContent, loading,
                   analysisResult, isAnalyzing, run, harness, pushing>>

\* The branch arrives: without a tree sha fetchAllFiles returns [], with one
\* it requests the tree.
BranchResponse ==
    /\ fetchPc = "branch"
    /\ \E treeSha \in BOOLEAN :
          IF treeSha
          THEN /\ fetchPc' = "tree"
               /\ UNCHANGED <<files, isLoadingFiles>>
          ELSE FilesListed(<<>>)
    /\ UNCHANGED <<listFailed, tree, error, selectedFile, selectedFilePath, fileContent,
                   loading, analysisResult, isAnalyzing, run, harness, pushing>>

\* catch (error) { console.error(...); return []; } in fetchAllFiles.
RequestFails(request) ==
    /\ fetchPc = request
    /\ listFailed' = request
    /\ FilesListed(<<>>)
    /\ UNCHANGED <<tree, error, selectedFile, selectedFilePath, fileContent, loading,
                   analysisResult, isAnalyzing, run, harness, pushing>>

\* The request for the branch fails.
BranchFails == RequestFails("branch")

\* The tree arrives.
TreeResponse ==
    /\ fetchPc = "tree"
    /\ \E t \in Trees :
          /\ tree' = t
          /\ FilesListed(AllFiles(t))
    /\ UNCHANGED <<listFailed, error, selectedFile, selectedFilePath, fileContent,
                   loading, analysisResult, isAnalyzing, run, harness, pushing>>

\* The request for the tree fails.
TreeFails == RequestFails("tree")

\* The component when it is mounted, before any file is listed.
InitFetch ==
    /\ files = <<>>
    /\ selectedFile = NoFile
    /\ selectedFilePath = ""
    /\ fileContent = ""
    /\ loading = {}
    /\ analysisResult = JSnull
    /\ error = ""
    /\ isAnalyzing = FALSE
    /\ NoRun
    /\ Quiet
    /\ input = JSundefined
    /\ NoCalls

NextFetch ==
    \/ FetchRepositoryFiles
    \/ BranchResponse
    \/ BranchFails
    \/ TreeResponse
    \/ TreeFails

SpecFetch == InitFetch /\ [][NextFetch]_vars

(* --------------------------- pushFilesToRepo -------------------------- *)

\* const pushBatchSize = 5
pushBatchSize == 5

\* Math.ceil(files.length / pushBatchSize)
totalPushBatches(length) == (length + pushBatchSize - 1) \div pushBatchSize

\* Math.min(start + pushBatchSize, files.length)
BatchEnd(start, length) ==
    IF start + pushBatchSize < length THEN start + pushBatchSize ELSE length

\* files.slice(start, end), as the positions of its files in the list,
\* counted from 1.
Batch(num, length) ==
    LET start == num * pushBatchSize
    IN  (start + 1) .. BatchEnd(start, length)

\* batch.map(async (file) => ...) up to each await: every file of the batch
\* has its content encoded and its request sent before Promise.all is
\* awaited. The encoding returns for a text (btoa of its UTF-8 bytes) and for
\* the null of a listed file without content (new Uint8Array(null) is empty).
IssueBatch(num, length, state, sent) ==
    /\ batchNum' = num
    /\ pushPc' = "batch"
    /\ pushState' = [i \in 1..length |->
                        IF i \in Batch(num, length) THEN "inflight" ELSE state[i]]
    /\ requests' = [i \in 1..length |->
                       IF i \in Batch(num, length) THEN Append(sent[i], num) ELSE sent[i]]

\* for (let batchNum = 0; batchNum < totalPushBatches; batchNum++)
PushBatches(num, length, state, sent) ==
    IF num < totalPushBatches(length)
    THEN /\ IssueBatch(num, length, state, sent)
         /\ UNCHANGED <<isPushing, stateError>>
    ELSE /\ pushPc' = "done"
         /\ isPushing' = FALSE
         /\ pushState' = state
         /\ requests' = sent
         /\ UNCHANGED <<batchNum, stateError>>

\* pushFilesToRepo up to its first await: with an empty list it reports
\* 'No files to push'; with files without content it requests their content;
\* otherwise it sends the first batch. The button is disabled while isPushing.
PushFilesToRepo ==
    /\ ~isPushing
    /\ \E length \in 0..MaxPushFiles, filesToFetch \in BOOLEAN :
          /\ pushFiles' = length
          /\ IF length = 0
             THEN /\ stateError' = "No files to push"
                  /\ isPushing' = FALSE
                  /\ pushPc' = "done"
                  /\ batchNum' = 0
                  /\ pushState' = <<>>
                  /\ requests' = <<>>
             ELSE IF filesToFetch
             THEN /\ isPushing' = TRUE
                  /\ pushPc' = "contents"
                  /\ batchNum' = 0
                  /\ pushState' = [i \in 1..length |-> "waiting"]
                  /\ requests' = [i \in 1..length |-> <<>>]
                  /\ UNCHANGED stateError
             ELSE /\ isPushing' = TRUE
                  /\ IssueBatch(0, length, [i \in 1..length |-> "waiting"],
                                [i \in 1..length |-> <<>>])
                  /\ UNCHANGED stateError
    /\ UNCHANGED <<component, loading, run, harness, listing>>

\* The contents have arrived or failed, each file caught on its own
\* (362-413): the first batch is sent.
ContentsLoaded ==
    /\ pushPc = "contents"
    /\ PushBatches(0, pushFiles, pushState, requests)
    /\ UNCHANGED <<pushFiles, component, loading, run, harness, listing>>

\* The request for file i ends, with a response or in the catch of its own
\* function; when it is the last of its batch Promise.all resolves and the
\* loop goes on.
PushSettles(i, outcome) ==
    /\ pushPc = "batch"
    /\ pushState[i] = "inflight"
    /\ LET state == [pushState EXCEPT ![i] = outcome]
       IN  IF \A j \in Batch(batchNum, pushFiles) : state[j] # "inflight"
           THEN PushBatches(batchNum + 1, pushFiles, state, requests)
           ELSE /\ pushState' = state
                /\ UNCHANGED <<isPushing, pushPc, batchNum, requests, stateError>>
    /\ UNCHANGED <<pushFiles, component, loading, run, harness, listing>>

\* await axios.put(...) returns: ADD_LOG success.
PushResponse == \E i \in 1..pushFiles : PushSettles(i, "pushed")

\* The failure of one push leaves the function of the file, Promise.all
\* rejects, and the outer catch and finally end the run.
PushFails_Rejects ==
    \E i \in 1..pushFiles :
        /\ pushPc = "batch"
        /\ pushState[i] = "inflight"
        /\ pushState' = [pushState EXCEPT ![i] = "failed"]
        /\ pushPc' = "done"
        /\ isPushing' = FALSE
        /\ stateError' = "Error pushing files"
        /\ UNCHANGED <<batchNum, requests>>
        /\ UNCHANGED <<pushFiles, component, loading, run, harness, listing>>

\* await axios.put(...) throws: catch (error) { ADD_LOG error; } and the
\* function of the file returns (454-459).
PushFails == \E i \in 1..pushFiles : PushSettles(i, "failed")

\* GitHubIntegration when it is mounted.
InitPush ==
    /\ files = <<>>
    /\ selectedFile = NoFile
    /\ selectedFilePath = ""
    /\ fileContent = ""
    /\ loading = {}
    /\ analysisResult = JSnull
    /\ error = ""
    /\ isAnalyzing = FALSE
    /\ NoRun
    /\ Quiet
    /\ input = JSundefined
    /\ NoCalls

NextPush ==
    \/ PushFilesToRepo
    \/ ContentsLoaded
    \/ PushResponse
    \/ PushFails

SpecPush == InitPush /\ [][NextPush]_vars

(* ------------------------- notions of the claims ---------------------- *)

IsText(x) == x.t = "string"

HasBrace(s) == \E i \in 1..Len(s) : s[i] = "{"

\* The '{' and the '}' among s[i..e].
Opens(s, i, e) == Cardinality({m \in i..e : s[m] = "{"})

Closes(s, i, e) == Cardinality({m \in i..e : s[m] = "}"})

\* The first index after i at which as many '}' as '{' have been read since
\* i, 0 when there is none.
BalancedEnd(s, i) ==
    LET ends == {e \in (i + 1)..Len(s) : s[e] = "}" /\ Opens(s, i, e) = Closes(s, i, e)}
    IN  IF ends = {} THEN 0 ELSE CHOOSE e \in ends : \A f \in ends : e <= f

\* The start indices that have a candidate, and those whose candidate parses.
WithCandidate(s) == {i \in 1..Len(s) : s[i] = "{" /\ BalancedEnd(s, i) # 0}

Parsing(s) ==
    {i \in WithCandidate(s) : JSONparse(SubSeq(s, i, BalancedEnd(s, i))).ok}

Least(S) == CHOOSE i \in S : \A j \in S : i <= j

\* Whether some substring of s is a JSON object.
ContainsObject(s) ==
    \E i \in 1..Len(s) : \E e \in i..Len(s) :
        /\ s[i] = "{" /\ s[e] = "}"
        /\ JSONparse(SubSeq(s, i, e)).ok

RECURSIVE BlocksFrom(_, _)
\* The fenced blocks of s from index from on, in order of appearance: the
\* matches of fenceRegex, each by the first and last index of its content.
BlocksFrom(s, from) ==
    IF ~FenceExec(s, from).found THEN <<>>
    ELSE <<FenceExec(s, from)>> \o BlocksFrom(s, FenceExec(s, from).next)

BlockText(s, b) == Trim(SubSeq(s, b.first, b.last))

\* A block holds an object when its trimmed content is one.
HoldsObject(s, b) ==
    JSONparse(BlockText(s, b)).ok /\ JSONparse(BlockText(s, b)).val.t = "object"

\* A block succeeds if its trimmed content parses directly as JSON or,
\* failing that, if the balanced-brace scan of its content finds an object.
Succeeds(s, b) ==
    \/ JSONparse(BlockText(s, b)).ok
    \/ Parsing(BlockText(s, b)) # {}

\* What a succeeding block yields.
YieldOf(s, b) ==
    IF JSONparse(BlockText(s, b)).ok THEN JSONparse(BlockText(s, b)).val
    ELSE LET c == BlockText(s, b)
         IN  JSONparse(SubSeq(c, Least(Parsing(c)), BalancedEnd(c, Least(Parsing(c))))).val

\* A block yields an object by either of the two ways.
YieldsObject(s, b) == Succeeds(s, b) /\ YieldOf(s, b).t = "object"

RECURSIVE FenceMarks(_, _)
\* The indices at which a fence stands in s from i on, left to right.
FenceMarks(s, i) ==
    IF i + 2 > Len(s) THEN <<>>
    ELSE IF StartsAt(s, i, Fence) THEN <<i>> \o FenceMarks(s, i + 3)
    ELSE FenceMarks(s, i + 1)

RECURSIVE LineEnd(_, _, _)
\* The index of the first line break in s[i..e], 0 when there is none.
LineEnd(s, i, e) ==
    IF i > e THEN 0
    ELSE IF s[i] = "\n" THEN i
    ELSE LineEnd(s, i + 1, e)

LowerText(w) == [k \in 1..Len(w) |-> Lower(w[k])]

\* The fenced blocks of s as its reader sees them: the first fence opens a
\* block, the second closes it, the third opens the next.  Each block with
\* the label of its opening fence (lower case) and the first and last index
\* of the text between the line of the opening fence and the closing fence.
FencedBlocks(s) ==
    LET marks == FenceMarks(s, 1)
    IN  [k \in 1..(Len(marks) \div 2) |->
            LET o == marks[2 * k - 1]
                c == marks[2 * k]
                n == LineEnd(s, o + 3, c - 1)
            IN  [lined |-> n # 0,
                 label |-> IF n = 0 THEN <<>> ELSE LowerText(SubSeq(s, o + 3, n - 1)),
                 first |-> n + 1,
                 last |-> c - 1]]

\* The blocks whose opening fence carries no label or one of the four.
Supported(b) ==
    /\ b.lined
    /\ b.label \in {<<>>} \cup {FenceLabels[k] : k \in 1..Len(FenceLabels)}

SupportedBlocks(s) == SelectSeq(FencedBlocks(s), Supported)

\* The texts a call took as block content, in order.
ContentsTried(s, r) == [k \in 1..Len(r.tried) |-> SubSeq(s, r.tried[k][1], r.tried[k][2])]

\* The path of the file a text was loaded or typed for, "" for no text.
OwnerOf(text) ==
    CASE text \in {ContentOf(AFile), Edited(AFile)} -> AFile.path
      [] text \in {ContentOf(BFile), Edited(BFile)} -> BFile.path
      [] OTHER -> ""

\* The path of the file of a name.
PathOfName(name) ==
    CASE name = AFile.name -> AFile.path
      [] name = BFile.name -> BFile.path
      [] OTHER -> ""

\* Whether the list holds content for the file at a path.
HasContent(path) == \E k \in 1..Len(files) : files[k].path = path /\ files[k].content # ""

(* ------------------------------- claims ------------------------------- *)

\* C1 (as claimed): the extraction in analyzeCode finds a value exactly when
\* some substring of the text is a valid JSON object, also when a JSON string
\* of the text holds a brace.
C1_FoundIffContainsObject ==
    (call = "analyze" /\ IsText(input))
        => ((via \in {"fences", "braces"}) <=> ContainsObject(input.v))

\* C2: extractJsonFromText returns the parse of the candidate of the smallest
\* start index whose candidate parses, having tried the start indices in
\* increasing order, each one before it whose braces balance included; it
\* returns null when no candidate parses.
C2_FirstParsingStartWins ==
    (call = "text" /\ ~NotAText(input)) =>
        LET s == input.v
            good == Parsing(s)
            tried == ret.tried
        IN  /\ \A k \in 1..(Len(tried) - 1) : tried[k][1] < tried[k + 1][1]
            /\ good = {} =>
                 /\ ret.value = JSnull
                 /\ {tried[k][1] : k \in 1..Len(tried)} = WithCandidate(s)
            /\ good # {} =>
                 /\ ret.value = JSONparse(SubSeq(s, Least(good), BalancedEnd(s, Least(good)))).val
                 /\ {tried[k][1] : k \in 1..Len(tried)}
                      = {i \in WithCandidate(s) : i <= Least(good)}

\* C2's case: a first candidate failed to parse and a later start index gave
\* the value.
C2_Witness ==
    /\ call = "text"
    /\ Len(ret.tried) >= 2
    /\ ret.value.t = "object"

\* C3 (as claimed): when a fenced block of the text holds a JSON object, the
\* analysis result is the object the fenced strategy yields, the one of the
\* earliest block that yields an object, whatever the text around the blocks
\* holds; the scan of the whole text gives the result only when the call of
\* extractJsonFromFences gave nothing.
C3_FencedObjectWins ==
    (call = "analyze" /\ IsText(input)) =>
        LET s == input.v
            blocks == BlocksFrom(s, 1)
            holding == {k \in 1..Len(blocks) : HoldsObject(s, blocks[k])}
            yielding == {k \in 1..Len(blocks) : YieldsObject(s, blocks[k])}
        IN  /\ holding # {} => analysisResult = YieldOf(s, blocks[Least(yielding)])
            /\ via = "braces" => ~Truthy(extractJsonFromFences(input).value)

\* C4 (as claimed): extractJsonFromFences returns what the earliest block
\* that succeeds yields, having tried the blocks in order up to that one, and
\* returns NotFound (null) only when no block succeeds.
C4_EarliestSucceedingBlock ==
    (call = "fences" /\ ~NotAText(input)) =>
        LET s == input.v
            blocks == BlocksFrom(s, 1)
            ok == {k \in 1..Len(blocks) : Succeeds(s, blocks[k])}
        IN  /\ ok # {} => ret.value = YieldOf(s, blocks[Least(ok)])
            /\ ok # {} => Len(ret.tried) = Least(ok)
            /\ ok = {} => Len(ret.tried) = Len(blocks)
            /\ ret.value = JSnull <=> ok = {}

\* C5 (as claimed): on a text without '{' both functions return NotFound and
\* analyzeCode finds no value.
C5_NoBraceNotFound ==
    (IsText(input) /\ ~HasBrace(input.v)) =>
        /\ call \in {"text", "fences"} => ret.value = JSnull
        /\ call = "analyze" => via = "fallback"

\* C6 (as claimed): a value returned by either function is a JSON object or
\* the NotFound sentinel null.
C6_FoundIsObject ==
    (call \in {"text", "fences"}) => (ret.value = JSnull \/ ret.value.t = "object")

\* C7: every candidate handed to JSON.parse runs from its '{' through the
\* first '}' at which the braces read since the start balance; a start index
\* whose braces never balance is not tried, and the start indices after it
\* are: the tried ones are exactly the balancing ones up to the one that
\* parsed, or all of them when none parsed.
C7_CandidateIsBalancedSpan ==
    (call = "text" /\ ~NotAText(input)) =>
        LET s == input.v
            tried == ret.tried
            starts == {tried[k][1] : k \in 1..Len(tried)}
            upTo == IF ret.value = JSnull THEN Len(s) ELSE tried[Len(tried)][1]
        IN  /\ \A k \in 1..Len(tried) :
                 /\ s[tried[k][1]] = "{"
                 /\ tried[k][2] = BalancedEnd(s, tried[k][1])
                 /\ tried[k][2] # 0
            /\ starts = {i \in 1..upTo : s[i] = "{" /\ BalancedEnd(s, i) # 0}
            /\ ret.value # JSnull =>
                 ret.value = JSONparse(SubSeq(s, tried[Len(tried)][1], tried[Len(tried)][2])).val

\* C7's case: a nested object is returned in full, after a start index whose
\* braces never balance was passed over.
C7_Witness ==
    /\ call = "text"
    /\ ret.value = [t |-> "object", v |-> <<"{", "\"", "a", "\"", ":", "{", "}", "}">>]
    /\ ret.tried[1][1] > 1
    /\ input.v[1] = "{"

\* C8: neither function lets an exception out, whatever the input; on an
\* empty string or a value that is not a string it returns null without
\* entering its scan.
C8_NeverThrows ==
    (call \in {"text", "fences"}) =>
        /\ ~ret.threw
        /\ NotAText(input) =>
             (ret.value = JSnull /\ ~ret.scanned /\ ret.tried = <<>>)

\* C8's case: a candidate or block failed to parse and the call returned.
C8_Witness ==
    /\ call \in {"text", "fences"}
    /\ ret.tried # <<>>
    /\ ret.value = JSnull
    /\ ~ret.threw

\* C9: when the job is done with a string from which neither strategy
\* extracts a value, analysisResult is the fallback object (no errors, no
\* warnings, one suggestion of severity info whose message is the raw text,
\* counts 0, 0 and 1) and error stays empty.
C9_FallbackOnNoJson ==
    (/\ pc = "done"
     /\ jobData.status = "done"
     /\ IsText(jobData.result)
     /\ ~Truthy(extractJsonFromFences(jobData.result).value)
     /\ ~Truthy(extractJsonFromText(jobData.result).value)) =>
        /\ DOMAIN analysisResult =
             {"t", "v", "errors", "warnings", "suggestions", "summary"}
        /\ analysisResult.errors = <<>>
        /\ analysisResult.warnings = <<>>
        /\ Len(analysisResult.suggestions) = 1
        /\ analysisResult.suggestions[1].severity = "info"
        /\ analysisResult.suggestions[1].message = jobData.result
        /\ analysisResult.summary =
             [errorCount |-> 0, warningCount |-> 0, suggestionCount |-> 1]
        /\ error = ""

\* C9's case: a run ended on a non-empty text that holds braces and fenced
\* blocks and no value.
C9_Witness ==
    /\ pc = "done"
    /\ jobData.status = "done"
    /\ IsText(jobData.result)
    /\ via = "fallback"
    /\ HasBrace(jobData.result.v)
    /\ BlocksFrom(jobData.result.v, 1) # <<>>

\* C10: a call of extractJsonFromText or extractJsonFromFences changes
\* neither its input nor files, selectedFile, fileContent, analysisResult,
\* error or isAnalyzing.
C10_ExtractionChangesNothing ==
    [][(call' \in {"text", "fences"} /\ call = "none")
          => (input' = input /\ UNCHANGED component)]_vars

\* C10's case: a call has found a value and the component is as before it.
C10_Witness ==
    /\ call \in {"text", "fences"}
    /\ Truthy(ret.value)
    /\ analysisResult = JSnull
    /\ isAnalyzing

\* C11: a second call of extractJsonFromText or extractJsonFromFences on the
\* same input returns what the first call returned, whether or not another
\* value was extracted in between and wherever that call stopped scanning.
C11_SameInputSameResult ==
    (again # NoRet) =>
        /\ again.value = ret.value
        /\ again.threw = ret.threw
        /\ again.tried = ret.tried

\* C11's case: between two calls of extractJsonFromFences that found a value
\* in a block of input, a call on another text returned from inside its
\* loop, with text left to scan.
C11_Witness ==
    /\ again # NoRet
    /\ call = "fences"
    /\ Truthy(ret.value)
    /\ other # NoOther
    /\ other # input
    /\ Truthy(extractJsonFromFences(other).value)
    /\ lastIndex > 1

\* C12 (as claimed): the texts extractJsonFromFences takes as block content
\* are, in order, the texts enclosed by the fenced blocks whose opening fence
\* is unlabelled or labelled json, python, py or txt in any letter case, all
\* of them unless a block gave the value returned; no text outside such a
\* block is taken; and the call takes the same contents and returns the same
\* value when the label is json instead.
C12_BlockContentIsFencedText ==
    (call = "fences" /\ ~NotAText(input)) =>
        LET s == input.v
            blocks == SupportedBlocks(s)
            tried == ret.tried
            twin == extractJsonFromFences(relabelled)
        IN  /\ Len(tried) <= Len(blocks)
            /\ \A k \in 1..Len(tried) :
                 k <= Len(blocks) => tried[k] = <<blocks[k].first, blocks[k].last>>
            /\ Len(tried) < Len(blocks) =>
                 JSONparse(Trim(ContentsTried(s, ret)[Len(tried)])).ok \/ Truthy(ret.value)
            /\ ContentsTried(s, ret) = ContentsTried(relabelled.v, twin)
            /\ ret.value = twin.value

\* C13 (as claimed): a run that made its 120 polls without a response saying
\* 'done' or 'failed' ends with the error 'Analysis job timed out' and no
\* analysis result, whether its status requests failed or were answered
\* with another status.
C13_TimesOutWithoutTerminalStatus ==
    (/\ pc = "done"
     /\ pollCount = PollLimit
     /\ jobData.status \notin {"done", "failed"}) =>
        /\ error = "Analysis job timed out"
        /\ analysisResult = JSnull

C15_FailedRequestIgnored ==
    /\ [][(pc = "polling" /\ ~requestFailed /\ requestFailed' /\ pollCount < PollLimit)
            => (pc' = "waiting" /\ UNCHANGED <<component, jobData>>)]_vars
    /\ [](requestFailed /\ pc \in {"waiting", "polling"}
            => (isAnalyzing /\ error = "" /\ analysisResult = JSnull))
    /\ [](requestFailed /\ pc = "done" /\ jobData.status = "done"
            => /\ error = ""
               /\ ~isAnalyzing
               /\ analysisResult = AnalysisOf(jobData.result).result)

\* C15's case: a run in which a status request failed has finished on a
\* later response saying 'done', with the object of its fenced block.
C15_Witness ==
    /\ requestFailed
    /\ pc = "done"
    /\ jobData.status = "done"
    /\ via = "fences"
    /\ analysisResult.t = "object"
    /\ pollCount > 1

\* C16: a run that ended on a response saying 'failed' has set error to the
\* error text of the job, or to 'Analysis failed' when the job gave none,
\* has left analysisResult null and has made no call of setAnalysisResult:
\* neither an extracted value nor the fallback object was set.
C16_FailedJobSetsError ==
    (pc = "done" /\ jobData.status = "failed") =>
        /\ error = (IF jobData.error # "" THEN jobData.error ELSE "Analysis failed")
        /\ error # ""
        /\ analysisResult = JSnull
        /\ via = ""

\* C16's case: a run ended on a failed job that gave no error text.
C16_Witness ==
    /\ pc = "done"
    /\ jobData.status = "failed"
    /\ jobData.error = ""
    /\ error = "Analysis failed"
    /\ ~isAnalyzing

\* C17 (as claimed): when a run of analyzeCode that passed its precondition
\* has finished, either analysisResult is an object other than null and
\* error is empty, or error is not empty and analysisResult is null.
C17_ExactlyOneOutcome ==
    (pc = "done") =>
        \/ /\ TypeOf(analysisResult) = "object"
           /\ analysisResult # JSnull
           /\ error = ""
        \/ /\ error # ""
           /\ analysisResult = JSnull

\* C18 (as claimed): an analysis result that is set was computed from code
\* posted under the name of the file that is selected now.
C18_ResultBelongsToSelectedFile ==
    (analysisResult # JSnull) => (submitted.fileName = selectedFile.name)

\* C19 (as claimed): when no content request is in flight and the list
\* holds content for the file selected last (its load completed),
\* selectedFile is that file and fileContent is a text of that file.
C19_LaterSelectionWins ==
    (loading = {} /\ selectedFilePath # "" /\ HasContent(selectedFilePath)) =>
        /\ selectedFile.path = selectedFilePath
        /\ OwnerOf(fileContent) = selectedFilePath

\* C20 (as claimed): the code posted under a file's name is a text loaded or
\* typed for that file; and when no content request is in flight (the load
\* of the selected file has ended, failed or not), fileContent is empty or
\* a text of the selected file.
C20_ContentBelongsToFile ==
    /\ (submitted # NoSubmit) => (OwnerOf(submitted.code) = PathOfName(submitted.fileName))
    /\ (loading = {} /\ selectedFile # NoFile /\ fileContent # "") =>
          (OwnerOf(fileContent) = selectedFile.path)

\* C21: when the request for the branch or for the tree fails while the files
\* of the repository are listed, fetchRepositoryFiles sets the error to
\* 'Failed to fetch repository files: <message>', and isLoadingFiles is false
\* when it ends.
C21_FailedListingSetsError ==
    (fetchPc = "done" /\ listFailed # "") =>
        /\ error = "Failed to fetch repository files: Network Error"
        /\ ~isLoadingFiles

\* The files of the list whose push request is in flight.
InFlight == {i \in DOMAIN pushState : pushState[i] = "inflight"}

\* The push of file i has completed, successfully or not.
Completed(i) == pushState[i] \in {"pushed", "failed"}

\* The files whose push request was sent by batch num.
SentBy(num) == {i \in DOMAIN requests : requests[i] # <<>> /\ requests[i][1] = num}

\* C22: pushFilesToRepo issues exactly one push request for every file of
\* the generated list, in consecutive batches of at most 5: never more than 5
\* push requests are in flight, no request of a later batch is issued before
\* every request of the batches before it has completed, successfully or
\* not, and when the run ends every file has had its request, whatever pushes
\* failed.
C22_OneRequestPerFileInBatches ==
    /\ Cardinality(InFlight) <= 5
    /\ \A i \in DOMAIN requests : Len(requests[i]) <= 1
    /\ \A num \in 0..pushFiles : Cardinality(SentBy(num)) <= 5
    /\ \A i, j \in DOMAIN requests :
          (i < j /\ requests[j] # <<>>) =>
              /\ requests[i] # <<>>
              /\ requests[i][1] <= requests[j][1]
              /\ (requests[i][1] < requests[j][1]) => Completed(i)
    /\ (pushPc = "done" /\ pushFiles > 0) =>
          /\ DOMAIN requests = 1..pushFiles
          /\ \A i \in 1..pushFiles : Len(requests[i]) = 1 /\ Completed(i)

\* A list of three batches has been pushed: a push of the first batch failed
\* and a file of the third batch was pushed after it.
C22_Witness ==
    /\ pushPc = "done"
    /\ pushFiles > 2 * pushBatchSize
    /\ \E i, j \in 1..pushFiles :
          /\ requests[i] = <<0>>
          /\ pushState[i] = "failed"
          /\ requests[j] = <<2>>
          /\ pushState[j] = "pushed"

====
